---- MODULE Spec2Model ----
(***************************************************************************)
(* Model of Code/platform_compat.c: the POSIX implementations of the       *)
(* Windows wide-character path and file entry points.  Every C function is *)
(* an operator over a machine record m (errno, locale, heap, caller        *)
(* buffer, OS state); every call of a function is one action.              *)
(***************************************************************************)
EXTENDS Integers, Sequences, FiniteSets, TLC

\* ------------------------------------------------------------------ bounds
MaxBlocks == 2        \* heap blocks that can be live at the same time
BufCap == 3           \* capacity, in wide units, of the caller's output buffer
MaxThreadCalls == 1   \* calls each thread makes in the threaded specification

\* ---------------------------------------------------------------- addresses
NULL == 0
BUF == 100            \* the caller's wide output buffer (buffer / dst)
PTRVAR == 150         \* the caller's char* variable (ptr of get_pgmptr_compat)
PROGRAM_PATH == 200   \* static char program_path[PATH_MAX]
FILEPTR == 300        \* a FILE* returned by fopen
Blocks == 1..MaxBlocks

\* An element of a buffer that holds what it held before the call.
Prior == -1

\* errno values
E0 == "0"
EINVAL == "EINVAL"
EILSEQ == "EILSEQ"
ENOMEM == "ENOMEM"
ERANGE == "ERANGE"
ENOENT == "ENOENT"

\* ------------------------------------------------------- caller's strings
\* Wide strings the caller passes (pointer p > 0 is the string WMem[p]).
WMem == << <<47>>,            \* 1  L"/"
           <<47, 233>>,       \* 2  L"/é"
           <<46>>,            \* 3  L"."
           <<47, 98>>,        \* 4  L"/b"
           <<47, 99>>,        \* 5  L"/c"
           <<47, 55296>>,     \* 6  L"/" followed by a lone surrogate
           <<114>>,           \* 7  L"r"
           <<119>> >>         \* 8  L"w"
DirArgs == {NULL, 1, 2, 3, 6}
FileArgs == {NULL, 4, 5, 6}
ModeArgs == {NULL, 6, 7, 8}
PathArgs == {NULL, 2, 3, 4, 6}
W(p) == WMem[p]

\* Byte strings the caller passes to MultiByteToWideChar.
BMem == << <<97>>,            \* 1  "a"
           <<195, 169>>,      \* 2  "é"
           <<97, 255>>,       \* 3  "a\xff"
           <<97, 98>>,        \* 4  "ab"
           <<>> >>            \* 5  ""
SrcArgs == {NULL, 1, 2, 3, 4, 5}
SrcLens == {-1, 1}
B(p) == BMem[p]

\* ---------------------------------------------------------------- OS names
Dirs == { <<47>>, <<47, 195, 169>>, <<47, 255>> }      \* "/", "/é", "/\xff"
FileNames == { <<47, 98>>, <<47, 99>> }                \* "/b", "/c"
ExePath == <<47, 120>>                                 \* "/x"

VARIABLES
  errno,         \* the thread's errno
  locale,        \* LC_CTYPE of the process: "C" or "UTF8"
  locale_set,    \* static int locale_set of MultiByteToWideChar_compat
  nsetlocale,    \* how many times setlocale has been invoked
  earlyConv,     \* a conversion ran before any setlocale of the layer
  cwd,           \* working directory of the process (bytes)
  files,         \* the files that exist
  live,          \* heap blocks allocated and not freed
  heap,          \* contents of the heap blocks
  buf,           \* the caller's wide output buffer
  pgm,           \* the caller's char* variable
  program_path,  \* contents of the static program_path
  crashed,       \* the process died of a null dereference
  last,          \* the call that has just returned
  thr            \* per thread: position inside MultiByteToWideChar_compat

vars == << errno, locale, locale_set, nsetlocale, earlyConv, cwd, files, live,
           heap, buf, pgm, program_path, crashed, last, thr >>

\* ----------------------------------------------------------------- helpers
Min(S) == CHOOSE x \in S : \A y \in S : x <= y
Range(s) == { s[i] : i \in 1..Len(s) }
Count(s, x) == Cardinality({ i \in 1..Len(s) : s[i] = x })
Fill(n, v) == [ i \in 1..n |-> v ]

\* The C string held in an array: the elements before the first terminator.
CStr(arr) ==
  IF 0 \in Range(arr)
  THEN SubSeq(arr, 1, Min({ i \in 1..Len(arr) : arr[i] = 0 }) - 1)
  ELSE arr

\* ------------------------------------------------------ multibyte encoding
IsCont(b) == b >= 128 /\ b <= 191

\* The bytes of wide character c in locale loc; <<>> when c has none.
EncodeWc(loc, c) ==
  IF c < 128 THEN <<c>>
  ELSE IF loc = "C" THEN <<>>
  ELSE IF c < 2048 THEN << 192 + (c \div 64), 128 + (c % 64) >>
  ELSE IF c >= 55296 /\ c <= 57343 THEN <<>>
  ELSE IF c < 65536
       THEN << 224 + (c \div 4096), 128 + ((c \div 64) % 64), 128 + (c % 64) >>
  ELSE IF c <= 1114111
       THEN << 240 + (c \div 262144), 128 + ((c \div 4096) % 64),
               128 + ((c \div 64) % 64), 128 + (c % 64) >>
  ELSE <<>>

\* The character starting at s[i]: n bytes long (0: invalid or incomplete).
DecodeAt(loc, s, i) ==
  LET b == s[i]
      has(k) == i + k <= Len(s) /\ \A j \in 1..k : IsCont(s[i + j])
      v2 == (b - 192) * 64 + (s[i + 1] - 128)
      v3 == (b - 224) * 4096 + (s[i + 1] - 128) * 64 + (s[i + 2] - 128)
      v4 == (b - 240) * 262144 + (s[i + 1] - 128) * 4096
              + (s[i + 2] - 128) * 64 + (s[i + 3] - 128)
  IN IF b < 128 THEN [n |-> 1, wc |-> b]
     ELSE IF loc = "C" THEN [n |-> 0, wc |-> 0]
     ELSE IF b >= 194 /\ b <= 223 /\ has(1) THEN [n |-> 2, wc |-> v2]
     ELSE IF b >= 224 /\ b <= 239 /\ has(2) /\ v3 >= 2048
             /\ ~(v3 >= 55296 /\ v3 <= 57343) THEN [n |-> 3, wc |-> v3]
     ELSE IF b >= 240 /\ b <= 244 /\ has(3) /\ v4 >= 65536 /\ v4 <= 1114111
          THEN [n |-> 4, wc |-> v4]
     ELSE [n |-> 0, wc |-> 0]

\* wcstombs over the wide string w.  n = -1: no destination (size query).
\* ret = -1 stands for (size_t)-1; out is what was stored.
RECURSIVE wcs_run(_, _, _, _, _)
wcs_run(loc, w, i, out, n) ==
  IF i > Len(w)
  THEN [ret |-> Len(out),
        out |-> IF n = -1 \/ Len(out) < n THEN Append(out, 0) ELSE out]
  ELSE LET e == EncodeWc(loc, w[i])
       IN IF e = <<>> THEN [ret |-> -1, out |-> out]
          ELSE IF n # -1 /\ Len(out) + Len(e) > n
               THEN [ret |-> Len(out), out |-> out]
          ELSE wcs_run(loc, w, i + 1, out \o e, n)

\* mbstowcs over the byte string s.  n = -1: no destination (size query).
\* The characters before an invalid sequence are stored before it fails.
RECURSIVE mbs_run(_, _, _, _, _)
mbs_run(loc, s, i, out, n) ==
  IF n # -1 /\ Len(out) >= n THEN [ret |-> Len(out), out |-> out]
  ELSE IF i > Len(s) THEN [ret |-> Len(out), out |-> Append(out, 0)]
  ELSE LET d == DecodeAt(loc, s, i)
       IN IF d.n = 0 THEN [ret |-> -1, out |-> out]
          ELSE mbs_run(loc, s, i + d.n, Append(out, d.wc), n)

\* ------------------------------------------------------------ machine, libc
\* Stores out at the start of the object p points to.
Store(m, p, out) ==
  IF p = BUF
  THEN [m EXCEPT !.buf = [ i \in 1..Len(@) |-> IF i <= Len(out) THEN out[i] ELSE @[i] ],
                 !.wr = @ \cup { i - 1 : i \in 1..Len(out) },
                 !.oob = @ \/ Len(out) > Len(m.buf)]
  ELSE [m EXCEPT !.heap[p] = [ i \in 1..Len(@) |-> IF i <= Len(out) THEN out[i] ELSE @[i] ],
                 !.oob = @ \/ Len(out) > Len(m.heap[p])]

\* p[i] = v, i counted from 0.
StoreAt(m, p, i, v) ==
  IF p = BUF
  THEN [m EXCEPT !.buf = [ j \in 1..Len(@) |-> IF j = i + 1 THEN v ELSE @[j] ],
                 !.wr = @ \cup {i},
                 !.oob = @ \/ i >= Len(m.buf)]
  ELSE [m EXCEPT !.heap[p] = [ j \in 1..Len(@) |-> IF j = i + 1 THEN v ELSE @[j] ],
                 !.oob = @ \/ i >= Len(m.heap[p])]

\* malloc of size elements; ok = FALSE: the allocator refuses.
malloc(m, size, ok) ==
  IF ok /\ Blocks \ m.live # {}
  THEN LET b == Min(Blocks \ m.live)
       IN [m |-> [m EXCEPT !.live = @ \cup {b},
                           !.heap[b] = Fill(size, Prior),
                           !.allocs = Append(@, b)],
           p |-> b]
  ELSE [m |-> [m EXCEPT !.errno = ENOMEM], p |-> NULL]

free(m, p) ==
  [m EXCEPT !.live = @ \ {p}, !.heap[p] = <<>>, !.frees = Append(@, p)]

\* size_t wcstombs(char *dst, const wchar_t *src, size_t n)
wcstombs(m, dst, w, n) ==
  LET r == wcs_run(m.locale, w, 1, <<>>, IF dst = NULL THEN -1 ELSE n)
      m1 == [m EXCEPT !.errno = IF r.ret = -1 THEN EILSEQ ELSE @,
                      !.earlyConv = @ \/ m.nsetlocale = 0]
  IN [m |-> IF dst = NULL THEN m1 ELSE Store(m1, dst, r.out), ret |-> r.ret]

\* size_t mbstowcs(wchar_t *dst, const char *src, size_t n)
mbstowcs(m, dst, s, n) ==
  LET r == mbs_run(m.locale, s, 1, <<>>, IF dst = NULL THEN -1 ELSE n)
      m1 == [m EXCEPT !.errno = IF r.ret = -1 THEN EILSEQ ELSE @,
                      !.earlyConv = @ \/ m.nsetlocale = 0]
  IN [m |-> IF dst = NULL THEN m1 ELSE Store(m1, dst, r.out), ret |-> r.ret]

\* setlocale(LC_CTYPE, "C.UTF-8")
setlocale(m) == [m EXCEPT !.locale = "UTF8", !.nsetlocale = @ + 1]

\* What a wrapped primitive left behind: its return value and the errno
\* after it (err = E0: it succeeded and left errno alone).
Prim(m, ret, err) ==
  [m EXCEPT !.errno = IF err = E0 THEN @ ELSE err,
            !.prims = @ + 1,
            !.primRet = ret,
            !.primErrno = IF err = E0 THEN m.errno ELSE err]

\* int chdir(const char *path)
chdir(m, path) ==
  IF path \in Dirs THEN Prim([m EXCEPT !.cwd = path], 0, E0)
  ELSE IF path = <<46>> THEN Prim(m, 0, E0)
  ELSE Prim(m, -1, ENOENT)

\* FILE *fopen(const char *name, const char *mode)
fopen(m, name, mode) ==
  IF mode = <<114>>
  THEN IF name \in m.files THEN Prim(m, FILEPTR, E0) ELSE Prim(m, NULL, ENOENT)
  ELSE IF mode = <<119>>
  THEN IF name \in FileNames
       THEN Prim([m EXCEPT !.files = @ \cup {name}], FILEPTR, E0)
       ELSE Prim(m, NULL, ENOENT)
  ELSE Prim(m, NULL, EINVAL)

\* int remove(const char *name)
remove(m, name) ==
  IF name \in m.files THEN Prim([m EXCEPT !.files = @ \ {name}], 0, E0)
  ELSE Prim(m, -1, ENOENT)

\* int rename(const char *old, const char *new)
rename(m, old, new) ==
  IF old \in m.files /\ new \in FileNames
  THEN Prim([m EXCEPT !.files = (@ \ {old}) \cup {new}], 0, E0)
  ELSE Prim(m, -1, ENOENT)

\* char *getcwd(NULL, 0): the working directory in a block it allocates.
\* g: "ok", "enomem" (no memory) or "enoent" (the directory was unlinked).
getcwd(m, g) ==
  IF g = "enoent" THEN [m |-> [m EXCEPT !.errno = ENOENT], p |-> NULL]
  ELSE LET a == malloc(m, Len(m.cwd) + 1, g = "ok")
       IN IF a.p = NULL THEN a
          ELSE [m |-> Store(a.m, a.p, Append(m.cwd, 0)), p |-> a.p]

\* char *realpath(const char *path, char *resolved)
realpath(m, path) ==
  IF path \in Dirs \cup m.files
  THEN [m |-> m, ok |-> TRUE, resolved |-> Append(path, 0)]
  ELSE IF path = <<46>>
  THEN [m |-> m, ok |-> TRUE, resolved |-> Append(m.cwd, 0)]
  ELSE [m |-> [m EXCEPT !.errno = ENOENT], ok |-> FALSE, resolved |-> <<>>]

\* ssize_t readlink("/proc/self/exe", program_path, sizeof - 1)
readlink(m, ok) ==
  IF ok THEN [m |-> [m EXCEPT !.program_path = ExePath], ret |-> Len(ExePath)]
  ELSE [m |-> [m EXCEPT !.errno = ENOENT], ret |-> -1]

\* The function's result: the machine it leaves, its return value and, for
\* the properties, the exit it took: "inval" (argument check), "conv" (a
\* sequence is not convertible), "nomem", "os" (the OS call failed),
\* "range" (the result does not fit), "ok", "segv".
Ret(m, ret, exit) == [m |-> m, ret |-> ret, exit |-> exit]

\* ------------------------------------------------------------ wchdir_compat
wchdir_compat(m0, path, mok) ==
  IF path = NULL THEN Ret([m0 EXCEPT !.errno = EINVAL], -1, "inval")
  ELSE
  LET q == wcstombs(m0, NULL, W(path), 0) IN
  IF q.ret = -1 THEN Ret(q.m, -1, "conv")
  ELSE
  LET a == malloc(q.m, q.ret + 1, mok) IN
  IF a.p = NULL THEN Ret([a.m EXCEPT !.errno = ENOMEM], -1, "nomem")
  ELSE
  LET c == wcstombs(a.m, a.p, W(path), q.ret + 1)
      r == chdir(c.m, CStr(c.m.heap[a.p]))
  IN Ret(free(r, a.p), r.primRet, IF r.primRet = 0 THEN "ok" ELSE "os")

\* ----------------------------------------------------------- wgetcwd_compat
\* buffer == NULL || size == 0
wgetcwd_auto_m(buffer, size) == buffer = NULL
wgetcwd_auto(buffer, size) == buffer = NULL \/ size = 0

\* len >= size
wgetcwd_too_small_m(len, size) == len > size
wgetcwd_too_small(len, size) == len >= size

wgetcwd_compat(m0, buffer, size, g, mok) ==
  LET c == getcwd(m0, g)
      mbpath == c.p
  IN
  IF mbpath = NULL THEN Ret(c.m, NULL, "os")
  ELSE
  LET q == mbstowcs(c.m, NULL, CStr(c.m.heap[mbpath]), 0)
      len == q.ret
      convert(m, result_buffer) ==
        LET w == mbstowcs(m, result_buffer, CStr(m.heap[mbpath]), len + 1)
        IN Ret(free(w.m, mbpath), result_buffer, "ok")
  IN
  IF len = -1 THEN Ret([free(q.m, mbpath) EXCEPT !.errno = EILSEQ], NULL, "conv")
  ELSE IF wgetcwd_auto(buffer, size)
  THEN LET a == malloc(q.m, len + 1, mok)
       IN IF a.p = NULL
          THEN Ret([free(a.m, mbpath) EXCEPT !.errno = ENOMEM], NULL, "nomem")
          ELSE convert(a.m, a.p)
  ELSE IF wgetcwd_too_small(len, size)
       THEN Ret([free(q.m, mbpath) EXCEPT !.errno = ERANGE], NULL, "range")
       ELSE convert(q.m, buffer)

\* -------------------------------------------------------- get_pgmptr_compat
\* ptr is not checked: *ptr = program_path with ptr == NULL is undefined
\* behaviour; ub chooses what the build makes of it: the store faults
\* ("segv") or is dropped ("elided").
get_pgmptr_compat(m0, ptr, rlok, ub) ==
  LET r == readlink(m0, rlok)
      len == r.ret
  IN
  IF len = -1 THEN Ret(r.m, -1, "os")
  ELSE
  LET m1 == [r.m EXCEPT !.program_path = Append(SubSeq(@, 1, len), 0)]
  IN IF ptr = NULL
     THEN IF ub = "segv" THEN Ret([m1 EXCEPT !.crashed = TRUE], 0, "segv")
          ELSE Ret(m1, 0, "ok")
     ELSE Ret([m1 EXCEPT !.pgm = PROGRAM_PATH], 0, "ok")

\* --------------------------------------------------------- wfullpath_compat
wfullpath_compat(m0, dst, src, size, mok) ==
  IF dst = NULL \/ src = NULL \/ size = 0
  THEN Ret([m0 EXCEPT !.errno = EINVAL], NULL, "inval")
  ELSE
  LET q == wcstombs(m0, NULL, W(src), 0) IN
  IF q.ret = -1 THEN Ret(q.m, NULL, "conv")
  ELSE
  LET a == malloc(q.m, q.ret + 1, mok)
      mbsrc == a.p
  IN
  IF mbsrc = NULL THEN Ret([a.m EXCEPT !.errno = ENOMEM], NULL, "nomem")
  ELSE
  LET c == wcstombs(a.m, mbsrc, W(src), q.ret + 1)
      r == realpath(c.m, CStr(c.m.heap[mbsrc]))
  IN
  IF ~r.ok THEN Ret(free(r.m, mbsrc), NULL, "os")
  ELSE
  LET q2 == mbstowcs(free(r.m, mbsrc), NULL, CStr(r.resolved), 0)
      len == q2.ret
  IN
  IF len = -1 \/ len >= size
  THEN Ret([q2.m EXCEPT !.errno = ERANGE], NULL, IF len = -1 THEN "conv" ELSE "range")
  ELSE Ret(mbstowcs(q2.m, dst, CStr(r.resolved), size).m, dst, "ok")

\* ----------------------------------------------- MultiByteToWideChar_compat
\* src == NULL || dst == NULL || dstlen <= 0
MBTWC_bad_args(src, dst, dstlen) == src = NULL \/ dst = NULL \/ dstlen <= 0

\* if (!locale_set) { setlocale(...); locale_set = 1; }
MBTWC_locale(m) ==
  IF m.locale_set = 0 THEN [setlocale(m) EXCEPT !.locale_set = 1] ELSE m

\* "Ensure null termination"
MBTWC_terminate_m(m, dst, result, dstlen) ==
  IF result < dstlen - 1
  THEN Ret(StoreAt(m, dst, result, 0), result, "ok")
  ELSE Ret(StoreAt(m, dst, dstlen, 0), dstlen, "ok")
\* A full destination reported as a failure instead of being truncated.
MBTWC_terminate_f(m, dst, result, dstlen) ==
  IF result < dstlen - 1
  THEN Ret(StoreAt(m, dst, result, 0), result, "ok")
  ELSE Ret(m, 0, "range")
MBTWC_terminate(m, dst, result, dstlen) ==
  IF result < dstlen - 1
  THEN Ret(StoreAt(m, dst, result, 0), result, "ok")
  ELSE Ret(StoreAt(m, dst, dstlen - 1, 0), dstlen - 1, "ok")

\* From "Handle null-terminated string" to the return.
MBTWC_convert(m1, src, srclen0, dst, dstlen, mok) ==
  LET strlen == Len(B(src))
      srclen == IF srclen0 = -1 THEN strlen ELSE srclen0
      m2 == [m1 EXCEPT !.rd = IF srclen0 = -1 THEN strlen + 1 ELSE @]
      a == malloc(m2, srclen + 1, mok)
      temp_src == a.p
  IN
  IF temp_src = NULL THEN Ret(a.m, 0, "nomem")
  ELSE
  LET copied == IF srclen <= strlen THEN srclen ELSE strlen + 1
      m3 == Store([a.m EXCEPT !.rd = IF copied > @ THEN copied ELSE @], temp_src,
                  [ i \in 1..srclen |-> IF i <= strlen THEN B(src)[i] ELSE 0 ])
      m4 == StoreAt(m3, temp_src, srclen, 0)
      r == mbstowcs(m4, dst, CStr(m4.heap[temp_src]), dstlen - 1)
      m5 == free(r.m, temp_src)
  IN IF r.ret = -1 THEN Ret(m5, 0, "conv")
     ELSE MBTWC_terminate(m5, dst, r.ret, dstlen)

MultiByteToWideChar_compat(m0, src, srclen, dst, dstlen, mok) ==
  IF MBTWC_bad_args(src, dst, dstlen) THEN Ret(m0, 0, "inval")
  ELSE MBTWC_convert(MBTWC_locale(m0), src, srclen, dst, dstlen, mok)

\* ------------------------------------------------------------------ _wfopen
_wfopen(m0, filename, mode, mok1, mok2) ==
  IF filename = NULL \/ mode = NULL
  THEN Ret([m0 EXCEPT !.errno = EINVAL], NULL, "inval")
  ELSE
  LET q == wcstombs(m0, NULL, W(filename), 0)
      fname_len == q.ret
  IN
  IF fname_len = -1 THEN Ret(q.m, NULL, "conv")
  ELSE
  LET a == malloc(q.m, fname_len + 1, mok1)
      mbfilename == a.p
  IN
  IF mbfilename = NULL THEN Ret([a.m EXCEPT !.errno = ENOMEM], NULL, "nomem")
  ELSE
  LET c == wcstombs(a.m, mbfilename, W(filename), fname_len + 1)
      q2 == wcstombs(c.m, NULL, W(mode), 0)
      mode_len == q2.ret
  IN
  IF mode_len = -1 THEN Ret(free(q2.m, mbfilename), NULL, "conv")
  ELSE
  LET a2 == malloc(q2.m, mode_len + 1, mok2)
      mbmode == a2.p
  IN
  IF mbmode = NULL
  THEN Ret([free(a2.m, mbfilename) EXCEPT !.errno = ENOMEM], NULL, "nomem")
  ELSE
  LET c2 == wcstombs(a2.m, mbmode, W(mode), mode_len + 1)
      r == fopen(c2.m, CStr(c2.m.heap[mbfilename]), CStr(c2.m.heap[mbmode]))
  IN Ret(free(free(r, mbfilename), mbmode), r.primRet,
         IF r.primRet # NULL THEN "ok" ELSE "os")

\* ----------------------------------------------------------------- _wremove
\* int result = remove(mbfilename); free(mbfilename); return result;
wremove_call_m(m, mbfilename) ==
  LET r == remove(m, CStr(m.heap[mbfilename]))
  IN Ret(free(r, mbfilename), 0, "ok")
wremove_call(m, mbfilename) ==
  LET r == remove(m, CStr(m.heap[mbfilename]))
  IN Ret(free(r, mbfilename), r.primRet, IF r.primRet = 0 THEN "ok" ELSE "os")

_wremove(m0, filename, mok) ==
  IF filename = NULL THEN Ret([m0 EXCEPT !.errno = EINVAL], -1, "inval")
  ELSE
  LET q == wcstombs(m0, NULL, W(filename), 0)
      len == q.ret
  IN
  IF len = -1 THEN Ret(q.m, -1, "conv")
  ELSE
  LET a == malloc(q.m, len + 1, mok)
      mbfilename == a.p
  IN
  IF mbfilename = NULL THEN Ret([a.m EXCEPT !.errno = ENOMEM], -1, "nomem")
  ELSE wremove_call(wcstombs(a.m, mbfilename, W(filename), len + 1).m, mbfilename)

\* ----------------------------------------------------------------- _wrename
\* if (new_len == (size_t)-1) { free(mboldname); return -1; }
wrename_new_unconvertible_m(m, mboldname) == Ret(m, -1, "conv")
wrename_new_unconvertible(m, mboldname) == Ret(free(m, mboldname), -1, "conv")

_wrename(m0, oldname, newname, mok1, mok2) ==
  IF oldname = NULL \/ newname = NULL
  THEN Ret([m0 EXCEPT !.errno = EINVAL], -1, "inval")
  ELSE
  LET q == wcstombs(m0, NULL, W(oldname), 0)
      old_len == q.ret
  IN
  IF old_len = -1 THEN Ret(q.m, -1, "conv")
  ELSE
  LET a == malloc(q.m, old_len + 1, mok1)
      mboldname == a.p
  IN
  IF mboldname = NULL THEN Ret([a.m EXCEPT !.errno = ENOMEM], -1, "nomem")
  ELSE
  LET c == wcstombs(a.m, mboldname, W(oldname), old_len + 1)
      q2 == wcstombs(c.m, NULL, W(newname), 0)
      new_len == q2.ret
  IN
  IF new_len = -1 THEN wrename_new_unconvertible(q2.m, mboldname)
  ELSE
  LET a2 == malloc(q2.m, new_len + 1, mok2)
      mbnewname == a2.p
  IN
  IF mbnewname = NULL
  THEN Ret([free(a2.m, mboldname) EXCEPT !.errno = ENOMEM], -1, "nomem")
  ELSE
  LET c2 == wcstombs(a2.m, mbnewname, W(newname), new_len + 1)
      r == rename(c2.m, CStr(c2.m.heap[mboldname]), CStr(c2.m.heap[mbnewname]))
  IN Ret(free(free(r, mboldname), mbnewname), r.primRet,
         IF r.primRet = 0 THEN "ok" ELSE "os")

\* ------------------------------------------------------------------ actions
Threads == {1, 2}
Idle == [pc |-> "idle", src |-> NULL, dstlen |-> 0, calls |-> 0]

\* The machine as it stands.
Machine ==
  [errno |-> errno, locale |-> locale, locale_set |-> locale_set,
   nsetlocale |-> nsetlocale, earlyConv |-> earlyConv, cwd |-> cwd,
   files |-> files, live |-> live, heap |-> heap, buf |-> buf,
   pgm |-> pgm, program_path |-> program_path, crashed |-> crashed,
   wr |-> {}, rd |-> 0, oob |-> FALSE, allocs |-> <<>>, frees |-> <<>>,
   prims |-> 0, primRet |-> 0, primErrno |-> E0]

\* The machine at the entry of a call.
Begin == Machine

NoCall ==
  [op |-> "none", args |-> <<>>, ret |-> 0, exit |-> "none", wr |-> {}, rd |-> 0,
   oob |-> FALSE, allocs |-> <<>>, frees |-> <<>>, prims |-> 0, primRet |-> 0,
   primErrno |-> E0, live0 |-> {}, cwd0 |-> <<>>, files0 |-> {},
   errno0 |-> E0, pgm0 |-> NULL, locale0 |-> "C"]

Apply(m) ==
  /\ errno' = m.errno
  /\ locale' = m.locale
  /\ locale_set' = m.locale_set
  /\ nsetlocale' = m.nsetlocale
  /\ earlyConv' = m.earlyConv
  /\ cwd' = m.cwd
  /\ files' = m.files
  /\ live' = m.live
  /\ heap' = m.heap
  /\ buf' = m.buf
  /\ pgm' = m.pgm
  /\ program_path' = m.program_path
  /\ crashed' = m.crashed

\* The call returns: the machine becomes the state.
Commit(op, args, r) ==
  /\ Apply(r.m)
  /\ last' = [op |-> op, args |-> args, ret |-> r.ret, exit |-> r.exit,
              wr |-> r.m.wr, rd |-> r.m.rd, oob |-> r.m.oob,
              allocs |-> r.m.allocs, frees |-> r.m.frees, prims |-> r.m.prims,
              primRet |-> r.m.primRet, primErrno |-> r.m.primErrno,
              live0 |-> live, cwd0 |-> cwd, files0 |-> files,
              errno0 |-> errno, pgm0 |-> pgm, locale0 |-> locale]

\* The caller is running: no call of the layer is in progress and the
\* result of the last one has been taken.
AtCaller == ~crashed /\ last.op = "none"

Call_wchdir ==
  /\ AtCaller
  /\ \E path \in DirArgs, mok \in BOOLEAN :
       Commit("wchdir", <<path>>, wchdir_compat(Begin, path, mok))
  /\ UNCHANGED thr

Call_wgetcwd ==
  /\ AtCaller
  /\ \E buffer \in {NULL, BUF}, size \in 0..BufCap,
        g \in {"ok", "enomem", "enoent"}, mok \in BOOLEAN :
       Commit("wgetcwd", <<buffer, size>>, wgetcwd_compat(Begin, buffer, size, g, mok))
  /\ UNCHANGED thr

Call_get_pgmptr ==
  /\ AtCaller
  /\ \E ptr \in {NULL, PTRVAR}, rlok \in BOOLEAN, ub \in {"segv", "elided"} :
       Commit("get_pgmptr", <<ptr>>, get_pgmptr_compat(Begin, ptr, rlok, ub))
  /\ UNCHANGED thr

Call_wfullpath ==
  /\ AtCaller
  /\ \E dst \in {NULL, BUF}, src \in PathArgs, size \in 0..BufCap, mok \in BOOLEAN :
       Commit("wfullpath", <<dst, src, size>>, wfullpath_compat(Begin, dst, src, size, mok))
  /\ UNCHANGED thr

Call_MultiByteToWideChar ==
  /\ AtCaller
  /\ \E src \in SrcArgs, srclen \in SrcLens, dst \in {NULL, BUF},
        dstlen \in 0..BufCap, mok \in BOOLEAN :
       Commit("MultiByteToWideChar", <<src, srclen, dst, dstlen>>,
              MultiByteToWideChar_compat(Begin, src, srclen, dst, dstlen, mok))
  /\ UNCHANGED thr

Call_wfopen ==
  /\ AtCaller
  /\ \E filename \in FileArgs, mode \in ModeArgs, mok1 \in BOOLEAN, mok2 \in BOOLEAN :
       Commit("_wfopen", <<filename, mode>>, _wfopen(Begin, filename, mode, mok1, mok2))
  /\ UNCHANGED thr

Call_wremove ==
  /\ AtCaller
  /\ \E filename \in FileArgs, mok \in BOOLEAN :
       Commit("_wremove", <<filename>>, _wremove(Begin, filename, mok))
  /\ UNCHANGED thr

Call_wrename ==
  /\ AtCaller
  /\ \E oldname \in FileArgs, newname \in FileArgs, mok1 \in BOOLEAN, mok2 \in BOOLEAN :
       Commit("_wrename", <<oldname, newname>>, _wrename(Begin, oldname, newname, mok1, mok2))
  /\ UNCHANGED thr

\* The caller releases a buffer wgetcwd_compat allocated for it.
CallerFree ==
  /\ AtCaller
  /\ \E b \in live :
       /\ live' = live \ {b}
       /\ heap' = [heap EXCEPT ![b] = <<>>]
  /\ UNCHANGED << errno, locale, locale_set, nsetlocale, earlyConv, cwd, files,
                  buf, pgm, program_path, crashed, last, thr >>

\* The caller takes the result of the call and goes on: it clears errno
\* before its next call, and its buffer holds what it holds from now on.
Resume ==
  /\ ~crashed
  /\ last.op # "none"
  /\ last' = NoCall
  /\ errno' = E0
  /\ buf' = Fill(BufCap, Prior)
  /\ UNCHANGED << locale, locale_set, nsetlocale, earlyConv, cwd, files, live,
                  heap, pgm, program_path, crashed, thr >>

Init ==
  /\ errno = E0
  /\ locale \in {"C", "UTF8"}
  /\ locale_set = 0
  /\ nsetlocale = 0
  /\ earlyConv = FALSE
  /\ cwd \in Dirs
  /\ files \in SUBSET FileNames
  /\ live = {}
  /\ heap = [ b \in Blocks |-> <<>> ]
  /\ buf = Fill(BufCap, Prior)
  /\ pgm = NULL
  /\ program_path = <<>>
  /\ crashed = FALSE
  /\ last = NoCall
  /\ thr = [ t \in Threads |-> Idle ]

Next ==
  \/ Call_wchdir
  \/ Call_wgetcwd
  \/ Call_get_pgmptr
  \/ Call_wfullpath
  \/ Call_MultiByteToWideChar
  \/ Call_wfopen
  \/ Call_wremove
  \/ Call_wrename
  \/ CallerFree
  \/ Resume

Spec == Init /\ [][Next]_vars

\* ------------------------------------------- threads in MultiByteToWideChar
\* Two threads call MultiByteToWideChar_compat(cp, flags, src, -1, BUF,
\* dstlen); the steps are its reads and writes of the unsynchronised static
\* locale_set.  errno and the output buffer shown are those of the thread
\* that returned last.
MT_Call(t) ==
  /\ ~crashed
  /\ thr[t].pc = "idle"
  /\ thr[t].calls < MaxThreadCalls
  /\ \E src \in {NULL, 1, 3}, dstlen \in {0, BufCap} :
       thr' = [thr EXCEPT ![t] = [pc |-> "args", src |-> src, dstlen |-> dstlen,
                                  calls |-> @.calls + 1]]
  /\ UNCHANGED << errno, locale, locale_set, nsetlocale, earlyConv, cwd, files,
                  live, heap, buf, pgm, program_path, crashed, last >>

\* if (src == NULL || dst == NULL || dstlen <= 0) return 0;
MT_CheckArgs(t) ==
  /\ thr[t].pc = "args"
  /\ IF MBTWC_bad_args(thr[t].src, BUF, thr[t].dstlen)
     THEN /\ Commit("MultiByteToWideChar", <<thr[t].src, -1, BUF, thr[t].dstlen>>,
                    Ret(Machine, 0, "inval"))
          /\ thr' = [thr EXCEPT ![t].pc = "idle"]
     ELSE /\ thr' = [thr EXCEPT ![t].pc = "flag"]
          /\ UNCHANGED << errno, locale, locale_set, nsetlocale, earlyConv, cwd,
                          files, live, heap, buf, pgm, program_path, crashed, last >>

\* if (!locale_set)
MT_ReadFlag(t) ==
  /\ thr[t].pc = "flag"
  /\ thr' = [thr EXCEPT ![t].pc = IF locale_set = 0 THEN "setlocale" ELSE "convert"]
  /\ UNCHANGED << errno, locale, locale_set, nsetlocale, earlyConv, cwd, files,
                  live, heap, buf, pgm, program_path, crashed, last >>

\* setlocale(LC_CTYPE, "C.UTF-8");
MT_SetLocale(t) ==
  /\ thr[t].pc = "setlocale"
  /\ Apply(setlocale(Machine))
  /\ thr' = [thr EXCEPT ![t].pc = "mark"]
  /\ UNCHANGED last

\* locale_set = 1;
MT_Mark(t) ==
  /\ thr[t].pc = "mark"
  /\ locale_set' = 1
  /\ thr' = [thr EXCEPT ![t].pc = "convert"]
  /\ UNCHANGED << errno, locale, nsetlocale, earlyConv, cwd, files, live, heap,
                  buf, pgm, program_path, crashed, last >>

\* The rest of the function, to its return.
MT_Convert(t) ==
  /\ thr[t].pc = "convert"
  /\ \E mok \in BOOLEAN :
       Commit("MultiByteToWideChar", <<thr[t].src, -1, BUF, thr[t].dstlen>>,
              MBTWC_convert([Machine EXCEPT !.errno = E0, !.buf = Fill(BufCap, Prior)],
                            thr[t].src, -1, BUF, thr[t].dstlen, mok))
  /\ thr' = [thr EXCEPT ![t].pc = "idle"]

NextMT ==
  \E t \in Threads :
    \/ MT_Call(t)
    \/ MT_CheckArgs(t)
    \/ MT_ReadFlag(t)
    \/ MT_SetLocale(t)
    \/ MT_Mark(t)
    \/ MT_Convert(t)

SpecMT == Init /\ [][NextMT]_vars

\* ---------------------------------------------------------------- properties
\* What each function returns when it fails.
Sentinel(op) ==
  IF op \in {"wchdir", "_wremove", "_wrename", "get_pgmptr"} THEN -1
  ELSE IF op = "MultiByteToWideChar" THEN 0
  ELSE NULL

\* The arguments of the call that must not be null.
RequiredArgs ==
  IF last.op \in {"wchdir", "_wremove", "get_pgmptr"} THEN {last.args[1]}
  ELSE IF last.op \in {"wfullpath", "_wfopen", "_wrename"} THEN {last.args[1], last.args[2]}
  ELSE IF last.op = "MultiByteToWideChar" THEN {last.args[1], last.args[3]}
  ELSE {}

\* Expected values, written out: the wide form of a directory name of the
\* model in a locale (<<>>: it has none), and whether a wide string of the
\* caller has a multibyte form.
DirWide(loc, d) ==
  IF d = <<47>> THEN <<47>>
  ELSE IF d = <<47, 195, 169>> /\ loc = "UTF8" THEN <<47, 233>>
  ELSE <<>>
Encodable(loc, w) ==
  \A i \in 1..Len(w) :
    w[i] < 128 \/ (loc = "UTF8" /\ w[i] < 55296)
Untouched == last.wr = {} /\ buf = Fill(BufCap, Prior)
WgetcwdAuto == last.args[1] = NULL \/ last.args[2] = 0

\* The block the call hands over to its caller, if any.
Kept ==
  IF last.op = "wgetcwd" /\ last.exit = "ok" /\ WgetcwdAuto THEN {last.ret} ELSE {}

\* C1: every buffer a call allocates is freed exactly once before the call
\* returns, on every exit; only the wide buffer wgetcwd_compat returns in
\* auto-allocation mode survives the call, and nothing else is freed.
C1_NoLeak ==
  last.op # "none" =>
    /\ \A b \in Range(last.allocs) \ Kept : Count(last.frees, b) = 1
    /\ \A b \in Kept : b \in Range(last.allocs) /\ Count(last.frees, b) = 0
    /\ Range(last.frees) \subseteq Range(last.allocs)
    /\ live = last.live0 \cup Kept
C1_Witness ==
  /\ last.op = "_wrename"
  /\ last.exit = "conv"
  /\ Len(last.allocs) = 1
  /\ last.frees = last.allocs

\* C2: a call with a null required argument returns its failure sentinel
\* with errno = EINVAL and does not dereference the pointer.
C2_NullRejected ==
  (last.op # "none" /\ NULL \in RequiredArgs) =>
    /\ ~crashed
    /\ last.ret = Sentinel(last.op)
    /\ errno = EINVAL

\* The wide result the call has to deliver, its size argument, and the
\* calls that get as far as the size check.
C3_Expected ==
  IF last.op = "wgetcwd" THEN DirWide(last.locale0, last.cwd0)
  ELSE IF W(last.args[2]) = <<46>> THEN DirWide(last.locale0, last.cwd0)
  ELSE W(last.args[2])
C3_Size == IF last.op = "wgetcwd" THEN last.args[2] ELSE last.args[3]
C3_Sized ==
  /\ \/ last.op = "wgetcwd" /\ last.args[1] = BUF
     \/ last.op = "wfullpath" /\ last.args[1] = BUF /\ last.args[2] # NULL
  /\ C3_Size > 0
  /\ last.exit \in {"ok", "range"}
\* C3: with a caller buffer of size > 0, wgetcwd_compat and wfullpath_compat
\* fail with ERANGE and leave the buffer alone when the result of len wide
\* units has len + 1 > size, and otherwise return the buffer holding exactly
\* the len units and a terminator.
C3_BufferFit ==
  C3_Sized =>
    LET len == Len(C3_Expected)
    IN IF len + 1 > C3_Size
       THEN last.ret = NULL /\ errno = ERANGE /\ Untouched
       ELSE /\ last.ret = BUF
            /\ last.wr = 0..len
            /\ SubSeq(buf, 1, len + 1) = Append(C3_Expected, 0)
            /\ \A i \in (len + 2)..BufCap : buf[i] = Prior
C3_Witness ==
  /\ C3_Sized
  /\ last.op = "wgetcwd"
  /\ Len(C3_Expected) = C3_Size
  /\ last.exit = "range"

\* C4: when a call with a caller-visible output returns its failure
\* sentinel, the output is what it was before the call.
C4_NoPartialWrite ==
  (last.op \in {"wgetcwd", "wfullpath", "MultiByteToWideChar", "get_pgmptr"}
     /\ last.exit \in {"inval", "conv", "nomem", "os", "range"}) =>
    Untouched /\ pgm = last.pgm0 /\ heap = [ b \in Blocks |-> IF b \in live THEN heap[b] ELSE <<>> ]

\* Expected values, written out: whether the bytes of the source the call
\* converts (all of it, or its first byte when srclen = 1) are valid UTF-8,
\* and the wide characters they are.
C5_Valid == <<last.args[1], last.args[2]>> \notin { <<2, 1>>, <<3, -1>> }
C5_Wide ==
  IF last.args[1] = 2 THEN <<233>>
  ELSE IF last.args[1] = 4 /\ last.args[2] = -1 THEN <<97, 98>>
  ELSE IF last.args[1] = 5 THEN <<>>
  ELSE <<97>>
C5_Chars == Len(C5_Wide)
\* C5 as stated: MultiByteToWideChar_compat fails (returns 0, writes
\* nothing) when the n wide characters of the source plus the terminator exceed dstlen, and
\* returns a non-zero count only when they fit.
C5_TooSmallFails ==
  (last.op = "MultiByteToWideChar" /\ last.args[1] # NULL /\ last.args[3] # NULL
     /\ last.args[4] > 0 /\ last.exit # "nomem" /\ C5_Valid) =>
    /\ C5_Chars + 1 > last.args[4] => (last.ret = 0 /\ Untouched)
    /\ last.ret # 0 => C5_Chars + 1 <= last.args[4]

\* C5 as amended: when the n wide characters of the source plus the
\* terminator exceed dstlen the call does not fail: it stores the first
\* dstlen - 1 characters and a terminator at dst[dstlen - 1] and returns
\* dstlen - 1; it returns n, with all of the source stored, when they fit.
C5_Truncates ==
  (last.op = "MultiByteToWideChar" /\ last.args[1] # NULL /\ last.args[3] # NULL
     /\ last.args[4] > 0 /\ last.exit # "nomem" /\ C5_Valid) =>
    LET dstlen == last.args[4]
        r == IF C5_Chars + 1 > dstlen THEN dstlen - 1 ELSE C5_Chars
    IN /\ last.exit = "ok"
       /\ last.ret = r
       /\ SubSeq(buf, 1, r + 1) = Append(SubSeq(C5_Wide, 1, r), 0)
       /\ \A i \in (r + 2)..BufCap : buf[i] = Prior
C5_Witness ==
  /\ last.op = "MultiByteToWideChar"
  /\ last.args = <<4, -1, BUF, 2>>
  /\ last.ret = 1
  /\ buf[1] = 97 /\ buf[2] = 0

\* C6: setlocale is invoked at most once, under every interleaving of the
\* callers, and before any conversion of the layer.
C6_LocaleOnce == nsetlocale <= 1 /\ ~earlyConv

\* C7: a call that fails because a sequence is not convertible returns its
\* failure sentinel with errno = EILSEQ.
C7_EncodingError ==
  (last.op \in {"wchdir", "wgetcwd", "wfullpath", "_wfopen", "_wremove", "_wrename"}
     /\ last.exit = "conv") =>
    last.ret = Sentinel(last.op) /\ errno = EILSEQ

\* C8: wgetcwd_compat with buffer NULL or size 0 never writes the caller's
\* buffer, never fails for lack of room, and on success returns a new block
\* of exactly len + 1 wide units holding the directory and a terminator;
\* with a buffer and size > 0 it allocates no result buffer and on success
\* returns the caller's buffer holding the directory and a terminator.
C8_DualMode ==
  last.op = "wgetcwd" =>
    LET w == DirWide(last.locale0, last.cwd0)
    IN IF WgetcwdAuto
       THEN /\ Untouched
            /\ last.exit # "range"
            /\ last.exit = "ok" =>
                 /\ last.ret \in Blocks \ last.live0
                 /\ last.ret \in live
                 /\ heap[last.ret] = Append(w, 0)
                 /\ w # <<>>
       ELSE /\ live = last.live0
            /\ Len(last.allocs) <= 1
            /\ last.exit = "ok" =>
                 /\ last.ret = BUF
                 /\ w # <<>>
                 /\ SubSeq(buf, 1, Len(w) + 1) = Append(w, 0)
C8_Witness ==
  /\ last.op = "wgetcwd"
  /\ last.args = <<BUF, 0>>
  /\ last.exit = "ok"
  /\ Len(heap[last.ret]) = 3

\* C9: wchdir_compat, _wfopen, _wremove and _wrename invoke the wrapped
\* primitive exactly once when every argument is non-null, convertible and
\* allocated, and then return its value and leave its errno; otherwise they
\* do not invoke it, and the working directory and the files are unchanged.
C9_Wrapper ==
  last.op \in {"wchdir", "_wfopen", "_wremove", "_wrename"} =>
    IF /\ NULL \notin RequiredArgs
       /\ \A p \in RequiredArgs : Encodable(last.locale0, W(p))
       /\ last.exit # "nomem"
    THEN /\ last.prims = 1
         /\ last.ret = last.primRet
         /\ errno = last.primErrno
    ELSE /\ last.prims = 0
         /\ cwd = last.cwd0
         /\ files = last.files0
         /\ last.ret = Sentinel(last.op)
         /\ errno \in {EINVAL, EILSEQ, ENOMEM}
C9_Witness ==
  /\ last.op = "_wremove"
  /\ last.prims = 1
  /\ last.ret = -1
  /\ errno = ENOENT
  /\ Len(last.frees) = 1

\* C10: a call of MultiByteToWideChar_compat with src and dst non-null and
\* dstlen >= 1 that does not fail returns r with 0 <= r <= dstlen - 1 and
\* dst[r] the terminator, writes nothing at or beyond dst[dstlen], and reads
\* at most srclen bytes of src (through the first NUL when srclen = -1); an
\* empty source returns 0.
C10_Bounds ==
  (last.op = "MultiByteToWideChar" /\ last.args[1] # NULL /\ last.args[3] # NULL
     /\ last.args[4] >= 1 /\ last.exit = "ok") =>
    /\ 0 <= last.ret /\ last.ret <= last.args[4] - 1
    /\ buf[last.ret + 1] = 0
    /\ last.wr \subseteq 0..(last.args[4] - 1)
    /\ ~last.oob
    /\ last.rd <= (IF last.args[2] = -1 THEN Len(B(last.args[1])) + 1 ELSE last.args[2])
    /\ B(last.args[1]) = <<>> => last.ret = 0
C10_Witness ==
  /\ last.op = "MultiByteToWideChar"
  /\ last.exit = "ok"
  /\ last.args[4] >= 2
  /\ last.ret = last.args[4] - 1
  /\ C5_Valid
  /\ C5_Chars > last.ret
====
